---- MODULE Spec2Model ----
(***************************************************************************)
(* Model of qiskit-ibmq-provider's transpiler-service client               *)
(* (IBMQTranspilerService.run, api/rest/validation.py), of the             *)
(* credentials configuration file (credentials/configrc.py) and of         *)
(* seconds_to_duration (utils/converters.py).                              *)
(***************************************************************************)
EXTENDS Integers, Sequences, FiniteSets, TLC

(* ------------------------------ bounds -------------------------------- *)
\* Largest user timeout explored (seconds).
MaxTimeout == 5
\* Largest wait interval explored (seconds).
MaxWait == 2
\* Largest number of experiments in a returned Qobj.
MaxCircuits == 2
\* Polls explored when no timeout is given (the loop itself is unbounded).
MaxPolls == 4
\* Number of distinct hubs an account may belong to.
NumHubs == 2
\* Number of distinct API tokens.
NumTokens == 2
\* Largest number of whole days in a duration given to seconds_to_duration.
MaxDays == 1

(* --------------------------- run(): values ---------------------------- *)
\* timeout: int = None (None is written -1 here; user timeouts are >= 0)
NoTimeout == -1
Timeouts == {NoTimeout} \cup (0 .. MaxTimeout)
\* wait: int = 3 ; time.sleep(wait) with a positive interval
Waits == 1 .. MaxWait
\* seconds a network call may take on the wall clock
Latencies == {0, 1}

\* serverless_transpiler_response = None
NoResponse == [tag |-> "None", experiments |-> << >>]
\* a body that is not a Qobj dictionary, e.g. {"error": "internal"}
Malformed == [tag |-> "malformed", experiments |-> << >>]
\* a Qobj dictionary with n experiments, numbered 1..n
QobjDict(n) == [tag |-> "qobj", experiments |-> [i \in 1 .. n |-> i]]
Payloads == {QobjDict(n) : n \in 0 .. MaxCircuits}

\* Exceptions transpiler_service_result can raise (all subclasses of Exception):
\* nothing to download yet (a 404, an empty body), a failed connection, or an
\* HTTP error status of the service such as 500.
PollExceptions == {"NotReady", "ConnectionError", "Http500"}
\* What one call of transpiler_service_result(download_url) can do.
PollOutcomes ==
    {[kind |-> "raise", exc |-> e, value |-> NoResponse] : e \in PollExceptions}
    \cup {[kind |-> "return", exc |-> "", value |-> v] :
            v \in {NoResponse, Malformed} \cup Payloads}
\* What one call of transpiler_service_submit(upload_url, qobj_dict) can do.
SubmitOutcomes == {"ok", "ConnectionError", "HttpError"}

VARIABLES
    pc,         \* position of run(): start, loop, sleep, poll, decode, Ready, TimedOut, Failed
    timeout,    \* run's timeout argument
    wait,       \* run's wait argument
    now,        \* time.time(), relative to the return of the submission
    start_time, \* run's start_time
    elapsed_time, \* run's elapsed_time
    response,   \* serverless_transpiler_response
    requests,   \* requests issued through self._api, in order
    submit_result, \* what transpiler_service_submit did, "" before the call
    history,    \* outcome of every poll so far, in order
    error,      \* exception run ended with, "" while none
    result,     \* value run returned
    cancelled,  \* the caller's wish to abandon the poll loop, and the requests issued by then
    file,       \* the configuration file: its sections, each a name and its options
    lastOp,     \* the last credentials call and the file contents before it
    seconds,    \* seconds_to_duration's argument, in milliseconds
    duration    \* the tuple seconds_to_duration returned

runVars == <<pc, timeout, wait, now, start_time, elapsed_time, response,
             requests, submit_result, history, error, result, cancelled>>
credVars == <<file, lastOp>>
durVars == <<seconds, duration>>
vars == <<pc, timeout, wait, now, start_time, elapsed_time, response,
          requests, submit_result, history, error, result, cancelled, file, lastOp,
          seconds, duration>>

(* -------------------------- run(): helpers ---------------------------- *)
\* self._api.transpiler_service_submit(self.upload_url, qobj_dict)
SubmitRequest == [method |-> "POST", url |-> "upload_url"]
\* variant: every poll uploads the Qobj again
PollRequestResubmits == [method |-> "POST", url |-> "upload_url"]
\* self._api.transpiler_service_result(self.download_url)
PollRequest == [method |-> "GET", url |-> "download_url"]

\* variant: the check fires one second early
TimeoutExceededEarly(t, elapsed) == t # NoTimeout /\ elapsed + 1 >= t
\* variant: the check forgets that timeout may be None
TimeoutExceededNoneUnchecked(t, elapsed) == elapsed >= t
\* timeout is not None and elapsed_time >= timeout
TimeoutExceeded(t, elapsed) == t # NoTimeout /\ elapsed >= t

\* disassemble(qobj) raises on anything that is not a Qobj dictionary
CanDisassemble(r) == r.tag = "qobj"
\* circuits, _, _ = disassemble(qobj): one circuit per experiment, in order
Disassemble(r) == [i \in 1 .. Len(r.experiments) |-> [circuit |-> r.experiments[i]]]
\* variant: the first circuit is returned whenever there is one
RunReturnFirstOnly(circuits) ==
    IF Len(circuits) >= 1
    THEN [type |-> "QuantumCircuit", items |-> << circuits[1] >>]
    ELSE [type |-> "list", items |-> circuits]
\* return circuits[0] if len(circuits) == 1 else circuits
RunReturn(circuits) ==
    IF Len(circuits) = 1
    THEN [type |-> "QuantumCircuit", items |-> << circuits[1] >>]
    ELSE [type |-> "list", items |-> circuits]
NoResult == [type |-> "None", items |-> << >>]

\* variant: connection errors are not caught
SwallowedButConnectionErrors(exc) == exc # "ConnectionError"
\* line 136, except Exception: every exception of the poll is swallowed
Swallowed(exc) == TRUE

\* no cancellation has been asked for
NotCancelled == [requested |-> FALSE, requests |-> 0]

Terminal == {"Ready", "TimedOut", "Failed"}
Polls == Len(history)

(* -------------------------- run(): actions ---------------------------- *)
RunInit ==
    /\ pc = "start"
    /\ timeout \in Timeouts
    /\ wait \in Waits
    /\ now = 0
    /\ start_time = 0
    /\ elapsed_time = 0
    /\ response = NoResponse
    /\ requests = << >>
    /\ submit_result = ""
    /\ history = << >>
    /\ error = ""
    /\ result = NoResult
    /\ cancelled = NotCancelled

\* variant: a failed submission is ignored and the poll loop starts anyway
SubmitIgnoresFailure ==
    /\ pc = "start"
    /\ requests' = Append(requests, SubmitRequest)
    /\ \E o \in SubmitOutcomes :
        /\ submit_result' = o
        /\ pc' = "loop"
        /\ start_time' = now
        /\ error' = error
    /\ response' = NoResponse
    /\ UNCHANGED <<timeout, wait, now, elapsed_time, history, result, cancelled>>

\* lines 119-128: one submission, then the clock and the response are set up
Submit ==
    /\ pc = "start"
    /\ requests' = Append(requests, SubmitRequest)
    /\ \E o \in SubmitOutcomes :
        /\ submit_result' = o
        /\ IF o = "ok"
           THEN /\ pc' = "loop"
                /\ start_time' = now
                /\ error' = error
           ELSE /\ pc' = "Failed"
                /\ start_time' = start_time
                /\ error' = o
    /\ response' = NoResponse
    /\ UNCHANGED <<timeout, wait, now, elapsed_time, history, result, cancelled>>

\* lines 129-132: the while condition and the timeout check
LoopCheck ==
    /\ pc = "loop"
    /\ IF response # NoResponse
       THEN /\ pc' = "decode"
            /\ UNCHANGED <<elapsed_time, error>>
       ELSE /\ elapsed_time' = now - start_time
            /\ IF TimeoutExceeded(timeout, elapsed_time')
               THEN pc' = "TimedOut" /\ error' = "UserTimeoutExceededError"
               ELSE pc' = "sleep" /\ error' = error
    /\ UNCHANGED <<timeout, wait, now, start_time, response, requests,
                   submit_result, history, result, cancelled>>

\* line 133: time.sleep(wait)
Sleep ==
    /\ pc = "sleep"
    /\ timeout = NoTimeout => Polls < MaxPolls
    /\ now' = now + wait
    /\ pc' = "poll"
    /\ UNCHANGED <<timeout, wait, start_time, elapsed_time, response, requests,
                   submit_result, history, error, result, cancelled>>

\* lines 134-137: one poll; whatever it raises is swallowed
Poll ==
    /\ pc = "poll"
    /\ requests' = Append(requests, PollRequest)
    /\ \E o \in PollOutcomes, d \in Latencies :
        /\ now' = now + d
        /\ history' = Append(history, o)
        /\ IF o.kind = "return"
           THEN /\ response' = o.value
                /\ pc' = "loop"
                /\ error' = error
           ELSE /\ response' = response
                /\ IF Swallowed(o.exc)
                   THEN pc' = "loop" /\ error' = error
                   ELSE pc' = "Failed" /\ error' = o.exc
    /\ UNCHANGED <<timeout, wait, start_time, elapsed_time, submit_result,
                   result, cancelled>>

\* variant: disassemble sits inside the try, so its failure is polled again
DecodeInsideTry ==
    /\ pc = "decode"
    /\ IF CanDisassemble(response)
       THEN /\ result' = RunReturn(Disassemble(response))
            /\ pc' = "Ready"
            /\ response' = response
       ELSE /\ result' = result
            /\ pc' = "loop"
            /\ response' = NoResponse
    /\ UNCHANGED <<timeout, wait, now, start_time, elapsed_time, error,
                   requests, submit_result, history, cancelled>>

\* lines 139-140: disassemble the response and return the circuits
Decode ==
    /\ pc = "decode"
    /\ IF CanDisassemble(response)
       THEN /\ result' = RunReturn(Disassemble(response))
            /\ pc' = "Ready"
            /\ error' = error
       ELSE /\ result' = result
            /\ pc' = "Failed"
            /\ error' = "DecodeError"
    /\ UNCHANGED <<timeout, wait, now, start_time, elapsed_time, response,
                   requests, submit_result, history, cancelled>>

\* The caller asks, between two iterations, that the poll loop be abandoned.
\* run() takes no cancellation token and reads none: no step above looks at it.
Cancel ==
    /\ pc = "loop"
    /\ response = NoResponse
    /\ ~cancelled.requested
    /\ cancelled' = [requested |-> TRUE, requests |-> Len(requests)]
    /\ UNCHANGED <<pc, timeout, wait, now, start_time, elapsed_time, response,
                   requests, submit_result, history, error, result>>

CredFrozen == UNCHANGED credVars
DurFrozen == UNCHANGED durVars

RunNext ==
    \/ Submit /\ CredFrozen /\ DurFrozen
    \/ LoopCheck /\ CredFrozen /\ DurFrozen
    \/ Sleep /\ CredFrozen /\ DurFrozen
    \/ Poll /\ CredFrozen /\ DurFrozen
    \/ Decode /\ CredFrozen /\ DurFrozen

(* ------------------------ credentials: values ------------------------ *)
\* hub, group and project are numbered from 1; 0 stands for None
NoHGP == <<0, 0, 0>>
HGPs == {NoHGP} \cup {<<h, 1, 1>> : h \in 1 .. NumHubs}
\* Credentials objects: a token and the hub/group/project they default to
CredentialsSet ==
    {[token |-> t, hub |-> x[1], group |-> x[2], project |-> x[3]] :
        t \in 1 .. NumTokens, x \in HGPs}
\* Credentials.unique_id(): HubGroupProject(hub, group, project)
UniqueId(c) == <<c.hub, c.group, c.project>>
\* Credentials.is_ibmq(): all([hub, group, project])
IsIbmq(c) == c.hub # 0 /\ c.group # 0 /\ c.project # 0

\* write_qiskit_rc._section_name: 'ibmq' or 'ibmq_<hub>_<group>_<project>'
SectionName(c) == IF IsIbmq(c) THEN <<"ibmq", c.hub, c.group, c.project>> ELSE <<"ibmq">>
\* write_qiskit_rc._credentials_object_to_dict: default_provider is
\* 'hub/group/project' when all three are set, and is left out otherwise
CredentialsObjectToDict(c) ==
    [token |-> c.token,
     default_provider |-> IF c.hub # 0 /\ c.group # 0 /\ c.project # 0
                          THEN <<c.hub, c.group, c.project>> ELSE << >>]
\* write_qiskit_rc: one section per stored Credentials, replacing the file
WriteQiskitRc(credentials) ==
    {[section |-> SectionName(credentials[u]),
      options |-> CredentialsObjectToDict(credentials[u])] : u \in DOMAIN credentials}

\* _get_default_provider_entry: split on '/', three parts or all None
GetDefaultProviderEntry(default_hgp) ==
    IF Len(default_hgp) = 3
    THEN [hub |-> default_hgp[1], group |-> default_hgp[2], project |-> default_hgp[3]]
    ELSE [hub |-> 0, group |-> 0, project |-> 0]
\* the Credentials built from one section of the file
SectionCredentials(s) ==
    LET hgp == GetDefaultProviderEntry(s.options.default_provider)
    IN  [token |-> s.options.token, hub |-> hgp.hub, group |-> hgp.group,
         project |-> hgp.project]
\* read_credentials_from_qiskitrc: {unique_id: Credentials}
ReadCredentialsFromQiskitrc(f) ==
    [u \in {UniqueId(SectionCredentials(s)) : s \in f} |->
        SectionCredentials(CHOOSE s \in f : UniqueId(SectionCredentials(s)) = u)]

\* variant: the new credentials are added to the stored ones
StoredAfterStoreAppends(stored, c) ==
    [u \in DOMAIN stored \cup {UniqueId(c)} |-> IF u = UniqueId(c) THEN c ELSE stored[u]]
\* lines 198-199: stored_credentials.clear(), then the new credentials are set
StoredAfterStore(stored, c) == [u \in {UniqueId(c)} |-> c]
\* variant: the stored credentials are cleared, as store_credentials does
StoredAfterRemoveClears(stored, c) == [u \in {} |-> c]
\* line 222: del stored_credentials[credentials.unique_id()]
StoredAfterRemove(stored, c) == [u \in DOMAIN stored \ {UniqueId(c)} |-> stored[u]]

NoOp == [op |-> "none", credentials |-> CHOOSE c \in CredentialsSet : TRUE,
         overwrite |-> FALSE, before |-> {}, raised |-> ""]

(* ------------------------ credentials: actions ------------------------ *)
\* the configuration file does not exist yet
CredInit ==
    /\ file = {}
    /\ lastOp = NoOp

\* store_credentials(credentials, overwrite)
StoreCredentials ==
    \E c \in CredentialsSet, overwrite \in BOOLEAN :
        LET stored_credentials == ReadCredentialsFromQiskitrc(file)
        IN  /\ IF UniqueId(c) \in DOMAIN stored_credentials /\ ~overwrite
               THEN file' = file
               ELSE file' = WriteQiskitRc(StoredAfterStore(stored_credentials, c))
            /\ lastOp' = [op |-> "store", credentials |-> c, overwrite |-> overwrite,
                          before |-> file, raised |-> ""]

\* remove_credentials(credentials)
RemoveCredentials ==
    \E c \in CredentialsSet :
        LET stored_credentials == ReadCredentialsFromQiskitrc(file)
        IN  IF UniqueId(c) \in DOMAIN stored_credentials
            THEN /\ file' = WriteQiskitRc(StoredAfterRemove(stored_credentials, c))
                 /\ lastOp' = [op |-> "remove", credentials |-> c, overwrite |-> FALSE,
                               before |-> file, raised |-> ""]
            ELSE /\ file' = file
                 /\ lastOp' = [op |-> "remove", credentials |-> c, overwrite |-> FALSE,
                               before |-> file, raised |-> "CredentialsNotFoundError"]

RunFrozen == UNCHANGED runVars

CredNext ==
    \/ StoreCredentials /\ RunFrozen /\ DurFrozen
    \/ RemoveCredentials /\ RunFrozen /\ DurFrozen

\* run() has not been called
RunIdle ==
    /\ pc = "start"
    /\ timeout = NoTimeout
    /\ wait = 1
    /\ now = 0
    /\ start_time = 0
    /\ elapsed_time = 0
    /\ response = NoResponse
    /\ requests = << >>
    /\ submit_result = ""
    /\ history = << >>
    /\ error = ""
    /\ result = NoResult
    /\ cancelled = NotCancelled

\* calls on the configuration file, in any order
(* ----------------------- seconds_to_duration ------------------------- *)
\* Durations are counted in milliseconds: the float argument is ms / 1000.
\* nothing returned yet
NoDuration == [days |-> -1, hours |-> -1, minutes |-> -1, seconds |-> -1, millisec |-> -1]
\* seconds_to_duration has not been called
DurIdle ==
    /\ seconds = 0
    /\ duration = NoDuration

\* the durations tried: whole milliseconds around every unit's edges
DurationInputs ==
    {d * (3600 * 24 * 1000) + h * (3600 * 1000) + m * (60 * 1000) + sec * 1000 + f :
        d \in 0 .. MaxDays, h \in {0, 1, 23}, m \in {0, 1, 59},
        sec \in {0, 1, 59}, f \in {0, 1, 500, 999}}

\* seconds*1000 in binary floating point. Below one minute seconds % 60 is the
\* argument itself and the product is the whole millisecond count. From one
\* minute on the remainder is inexact and the product can land just above
\* the whole millisecond (60.999 % 60 * 1000 = 999.0000000000023), and then
\* ceil gives one millisecond more: 0 or 1 is added, as the rounding falls.
FloatExcess(ms) ==
    IF ms < 60 * 1000 \/ ms % 1000 = 0 THEN {0} ELSE {0, 1}

\* lines 81-91, with `up` the excess of the float product seconds*1000
SecondsToDuration(ms, up) ==
    LET days == ms \div (3600 * 24 * 1000)
        hours == (ms \div (3600 * 1000)) % 24
        minutes == (ms \div (60 * 1000)) % 60
        rest == ms % (60 * 1000)
    IN  IF rest < 1000
        THEN [days |-> days, hours |-> hours, minutes |-> minutes,
              seconds |-> 0, millisec |-> rest + up]
        ELSE [days |-> days, hours |-> hours, minutes |-> minutes,
              seconds |-> rest \div 1000, millisec |-> 0]

\* one call of seconds_to_duration(seconds)
CallSecondsToDuration ==
    /\ duration = NoDuration
    /\ \E up \in FloatExcess(seconds) : duration' = SecondsToDuration(seconds, up)
    /\ UNCHANGED seconds

DurNext ==
    \/ CallSecondsToDuration /\ RunFrozen /\ CredFrozen

DurSpecInit ==
    /\ RunIdle
    /\ CredInit
    /\ seconds \in DurationInputs
    /\ duration = NoDuration
\* seconds_to_duration applied to each of the durations tried
DurSpec == DurSpecInit /\ [][DurNext]_vars

\* the dictionaries write_qiskit_rc accepts: {unique_id: Credentials}
CredentialsDicts ==
    UNION {[U -> 1 .. NumTokens] : U \in SUBSET HGPs}
\* the configuration files write_qiskit_rc can have left behind
WrittenFiles ==
    {WriteQiskitRc([u \in DOMAIN d |->
                      [token |-> d[u], hub |-> u[1], group |-> u[2], project |-> u[3]]]) :
        d \in CredentialsDicts}
\* the configuration file is absent or was written by write_qiskit_rc
CredStart ==
    /\ file \in WrittenFiles
    /\ lastOp = NoOp

CredSpecInit == RunIdle /\ CredStart /\ DurIdle
CredSpec == CredSpecInit /\ [][CredNext]_vars

Init == RunInit /\ CredInit /\ DurIdle
Next == RunNext
Spec == Init /\ [][Next]_vars
\* run() is sequential code: each step it is at is eventually taken
FairSpec == Spec /\ WF_vars(Next)

\* run() with a caller that may ask for cancellation
CancelNext ==
    \/ RunNext
    \/ Cancel /\ CredFrozen /\ DurFrozen
CancelSpec == Init /\ [][CancelNext]_vars

(* ---------------------- run(): claims C1 - C9 ------------------------- *)
\* a poll that found nothing yet: a "not ready" error status or an empty answer
NotReady(o) ==
    \/ o.kind = "raise" /\ o.exc = "NotReady"
    \/ o.kind = "return" /\ o.value = NoResponse
\* the poll outcomes the specification calls Pending
Pending(o) == NotReady(o) \/ (o.kind = "raise" /\ o.exc = "ConnectionError")
\* a poll that returned a Qobj dictionary
WellFormed(o) == o.kind = "return" /\ o.value \in Payloads
\* a poll that returned a body the codec cannot decode
Undecodable(o) == o.kind = "return" /\ o.value = Malformed
\* a poll that met an HTTP error status outside the "not ready" class
RemoteFailure(o) == o.kind = "raise" /\ o.exc = "Http500"
IsGet(r) == r.method = "GET" /\ r.url = "download_url"
IsPost(r) == r.method = "POST" /\ r.url = "upload_url"
Gets == Cardinality({i \in 1 .. Len(requests) : IsGet(requests[i])})
SubmitFailed == submit_result \notin {"", "ok"}

\* C1: with timeout T set and every poll "not ready", the poll loop ends by
\* raising UserTimeoutExceededError, and the error is only ever raised when
\* the elapsed time is at least T.
C1_TimeoutAtOrAfterT ==
    /\ [](pc = "TimedOut" =>
            /\ timeout # NoTimeout
            /\ error = "UserTimeoutExceededError"
            /\ elapsed_time >= timeout
            /\ now - start_time >= timeout)
    /\ (pc = "loop" /\ timeout # NoTimeout)
         ~> (\/ pc = "TimedOut"
             \/ \E i \in 1 .. Len(history) : ~NotReady(history[i]))
C1_Witness ==
    /\ pc = "TimedOut"
    /\ timeout = MaxTimeout
    /\ Len(history) >= 2
    /\ \A i \in 1 .. Len(history) : NotReady(history[i])

\* C2: run issues exactly one submission, before the first poll, and every
\* later request is a download poll.
C2_SingleSubmission ==
    /\ pc = "start" => requests = << >>
    /\ pc # "start" =>
        /\ Len(requests) >= 1
        /\ IsPost(requests[1])
        /\ \A i \in 2 .. Len(requests) : IsGet(requests[i])
        /\ Len(requests) = 1 + Len(history)
C2_Witness ==
    /\ pc \in Terminal
    /\ Len(requests) >= 4
    /\ IsPost(requests[1])

\* C3: a poll response that the codec cannot decode ends run with a decode
\* error; it is the last poll, never retried.
C3_DecodeFailureTerminal ==
    \A i \in 1 .. Len(history) :
        Undecodable(history[i]) =>
            /\ i = Len(history)
            /\ Gets = i
            /\ pc \in {"loop", "decode", "Failed"}
            /\ pc = "Failed" => error = "DecodeError"
            /\ ENABLED Next \/ pc = "Failed"
C3_Witness ==
    /\ pc = "Failed"
    /\ error = "DecodeError"
    /\ Len(history) = 1
    /\ Undecodable(history[1])
    /\ Gets = 1

\* C4: a poll that meets an HTTP error status such as 500 makes run fail
\* with that remote error, and no further poll is issued.
C4_RemoteErrorTerminal ==
    \A i \in 1 .. Len(history) :
        RemoteFailure(history[i]) =>
            /\ i = Len(history)
            /\ pc \in Terminal => (pc = "Failed" /\ error = "Http500")

\* C5: Pending polls only continue the loop; when polls 1..k-1 are Pending
\* and poll k returns a well-formed payload, run returns Ready after exactly
\* k GETs, each after one wait interval, and none after the successful one.
C5_PendingThenReady ==
    /\ \A k \in 1 .. Len(history) :
        (Pending(history[k]) /\ k = Len(history)) =>
            /\ pc \in {"loop", "sleep", "poll", "TimedOut"}
            /\ response = NoResponse
    /\ \A k \in 1 .. Len(history) :
        (WellFormed(history[k]) /\ \A i \in 1 .. k - 1 : Pending(history[i])) =>
            /\ k = Len(history)
            /\ Gets = k
            /\ pc \in {"loop", "decode", "Ready"}
            /\ now - start_time >= k * wait
    /\ pc = "Ready" => WellFormed(history[Len(history)])
\* the scenario: interval 1, timeout 5, pending at 1, 2, 3 and a payload at 4
C5_Witness ==
    /\ pc = "Ready"
    /\ wait = 1
    /\ timeout = 5
    /\ Len(history) = 4
    /\ \A i \in 1 .. 3 : Pending(history[i])
    /\ now - start_time = 4
    /\ Gets = 4

\* C6: with timeout None, as long as the remote returns neither a decodable
\* payload nor a terminal error, the poll loop never reaches Ready, TimedOut
\* or Failed, and it goes on polling (here: up to the MaxPolls polls explored).
C6_NoTimeoutNeverEnds ==
    /\ []((/\ timeout = NoTimeout
           /\ submit_result = "ok"
           /\ \A i \in 1 .. Len(history) : Pending(history[i]))
          => /\ pc \in {"loop", "sleep", "poll"}
             /\ Len(history) < MaxPolls => ENABLED Next
             /\ Gets = Len(history)
             /\ now - start_time >= Len(history) * wait)
    /\ (timeout = NoTimeout /\ pc = "loop")
         ~> (\/ Len(history) = MaxPolls
             \/ \E i \in 1 .. Len(history) : ~Pending(history[i]))
C6_Witness ==
    /\ timeout = NoTimeout
    /\ Len(history) = MaxPolls
    /\ \A i \in 1 .. Len(history) : Pending(history[i])
    /\ pc = "sleep"

\* C7: a failed submission is propagated to the caller of run, is the only
\* request issued (no retry), and no poll follows it.
C7_SubmitFailurePropagates ==
    SubmitFailed =>
        /\ pc = "Failed"
        /\ error = submit_result
        /\ Len(requests) = 1
        /\ IsPost(requests[1])
        /\ history = << >>
C7_Witness ==
    /\ submit_result = "HttpError"
    /\ pc = "Failed"
    /\ error = "HttpError"

\* C8: once the caller has asked for cancellation between two iterations, no
\* further network call is issued.
C8_NoCallAfterCancel ==
    cancelled.requested => Len(requests) = cancelled.requests

\* C9: when a poll returns a well-formed payload, run returns Ready and the
\* computations it returns are those the codec decodes from that payload (a
\* single circuit for one computation, the list otherwise).
C9_RoundTrip ==
    \A k \in 1 .. Len(history) :
        (WellFormed(history[k]) /\ pc \in Terminal) =>
            /\ pc = "Ready"
            /\ result.items = Disassemble(history[k].value)
            /\ Len(result.items) = Len(history[k].value.experiments)
            /\ result.type = "QuantumCircuit" <=> Len(result.items) = 1
C9_Witness ==
    /\ pc = "Ready"
    /\ Len(history) = 1
    /\ WellFormed(history[1])
    /\ Len(result.items) = MaxCircuits
    /\ result.type = "list"

(* --------------------- credentials: claim C10 ------------------------- *)
StoredBefore == ReadCredentialsFromQiskitrc(lastOp.before)
StoredNow == ReadCredentialsFromQiskitrc(file)

C11_RemoveDeletesExactlyOne ==
    lastOp.op = "remove" =>
        IF UniqueId(lastOp.credentials) \in DOMAIN StoredBefore
        THEN /\ lastOp.raised = ""
             /\ DOMAIN StoredNow = DOMAIN StoredBefore \ {UniqueId(lastOp.credentials)}
             /\ \A u \in DOMAIN StoredNow : StoredNow[u] = StoredBefore[u]
             /\ Cardinality(file) = Cardinality(lastOp.before) - 1
        ELSE /\ lastOp.raised = "CredentialsNotFoundError"
             /\ file = lastOp.before
C11_Witness ==
    /\ lastOp.op = "remove"
    /\ lastOp.raised = ""
    /\ Cardinality(DOMAIN StoredBefore) >= 2
    /\ UniqueId(lastOp.credentials) \in DOMAIN StoredBefore
    /\ UniqueId(lastOp.credentials) \notin DOMAIN StoredNow
    /\ DOMAIN StoredNow # {}

(* ------------------ seconds_to_duration: claim C12 -------------------- *)
\* C12: for a non-negative duration of whole milliseconds the tuple returned
\* has hours < 24, minutes < 60, seconds < 60, milliseconds < 1000, and its
\* components add up to the duration.
C12_DurationDecomposes ==
    duration # NoDuration =>
        /\ duration.hours < 24
        /\ duration.minutes < 60
        /\ duration.seconds < 60
        /\ duration.millisec < 1000
        /\ duration.days * 86400000 + duration.hours * 3600000
             + duration.minutes * 60000 + duration.seconds * 1000
             + duration.millisec = seconds

====
